---- MODULE Spec2Model ----
(***************************************************************************)
(* nano: path-based HTTP router with middleware chaining.                  *)
(* Strings are sequences of one-character strings, so that splitting on    *)
(* '/', prefix tests and key formatting are computed, not assumed.         *)
(***************************************************************************)
EXTENDS Naturals, Integers, Sequences, FiniteSets, TLC

VARIABLES
    nodes,          \* router.nodes: map request method -> trie root
    handlers,       \* router.handlers: map "METHOD-pattern" -> handler list
    defaultHandler, \* router.defaultHandler (<<>> is nil, else <<h>>)
    groups,         \* Engine.groups, in creation order (root group first)
    running,        \* FALSE once log.Fatal has ended the process
    calls,          \* number of router.addRoute calls made so far
    last,           \* arguments of the latest router.addRoute call (<<>> if none)
    found,          \* result of the last router.findRoute call (<<>> if none)
    ctx             \* Context of the request served last (<<>> if none)

vars == <<nodes, handlers, defaultHandler, groups, running, calls, last, found, ctx>>

----------------------------------------------------------------------------
(* Bounds of the model.                                                    *)

MaxRoutes == 2      \* addRoute calls made directly on a router
MaxReqParts == 3    \* segments of a request path
MaxHandlers == 2    \* handlers of one route registration
MaxEngineRoutes == 1 \* routes registered through the router groups of an engine
MaxGroups == 3      \* router groups of an engine, the root group included
MaxUse == 2         \* middlewares registered with Use on an engine
MaxNext == 2        \* calls of c.Next() in the body of one middleware
MaxMethodRoutes == 2 \* routes registered on an engine with GET and POST
MaxWrites == 2      \* response-writing calls made on one context
MaxLen == 6         \* characters of a string given to createURLParts
MaxReinsert == 3    \* addRoute calls on one method with overlapping patterns

----------------------------------------------------------------------------
(* Strings.                                                                *)

EmptyMap == [k \in {} |-> <<>>]

MapPut(m, k, v) == [x \in (DOMAIN m) \cup {k} |-> IF x = k THEN v ELSE m[x]]

HasPrefix(s, prefix) ==
    /\ Len(prefix) <= Len(s)
    /\ SubSeq(s, 1, Len(prefix)) = prefix

RECURSIVE Split(_)
Split(s) ==
    IF \E i \in 1..Len(s) : s[i] = "/"
    THEN LET i == CHOOSE j \in 1..Len(s) :
                      s[j] = "/" /\ \A k \in 1..(j-1) : s[k] # "/"
         IN <<SubSeq(s, 1, i-1)>> \o Split(SubSeq(s, i+1, Len(s)))
    ELSE <<s>>

RECURSIVE Join(_)
Join(parts) ==
    IF parts = <<>> THEN <<>>
    ELSE IF Len(parts) = 1 THEN parts[1]
    ELSE parts[1] \o <<"/">> \o Join(Tail(parts))

Sprintf(requestMethod, urlPattern) == requestMethod \o <<"-">> \o urlPattern

----------------------------------------------------------------------------
(* router.go                                                               *)

RECURSIVE CollectParts(_, _)

\* variant: the collection stops before the segment that begins with '*'
CollectParts_dropsWildcard(patternParts, urlParts) ==
    IF patternParts = <<>> THEN urlParts
    ELSE LET path == Head(patternParts)
         IN IF path # <<>>
            THEN IF path[1] = "*"
                 THEN urlParts
                 ELSE CollectParts(Tail(patternParts), Append(urlParts, path))
            ELSE CollectParts(Tail(patternParts), urlParts)

\* variant: an empty segment after the first kept one ends the collection
CollectParts_stopsAtEmpty(patternParts, urlParts) ==
    IF patternParts = <<>> THEN urlParts
    ELSE LET path == Head(patternParts)
         IN IF path # <<>>
            THEN IF path[1] = "*"
                 THEN Append(urlParts, path)
                 ELSE CollectParts(Tail(patternParts), Append(urlParts, path))
            ELSE IF urlParts = <<>>
                 THEN CollectParts(Tail(patternParts), urlParts)
                 ELSE urlParts

CollectParts(patternParts, urlParts) ==
    IF patternParts = <<>> THEN urlParts
    ELSE LET path == Head(patternParts)
         IN IF path # <<>>
            THEN IF path[1] = "*"
                 THEN Append(urlParts, path)
                 ELSE CollectParts(Tail(patternParts), Append(urlParts, path))
            ELSE CollectParts(Tail(patternParts), urlParts)

createURLParts(urlPattern) == CollectParts(Split(urlPattern), <<>>)

----------------------------------------------------------------------------
(* tree.go: the trie                                                       *)

EmptyNode ==
    [urlPattern |-> <<>>, urlPart |-> <<>>, childrens |-> <<>>, isWildcard |-> FALSE]

\* variant: only a child with the same segment text is found
findChildren_exactOnly(n, urlPart) ==
    IF \E i \in 1..Len(n.childrens) : n.childrens[i].urlPart = urlPart
    THEN CHOOSE i \in 1..Len(n.childrens) :
           /\ n.childrens[i].urlPart = urlPart
           /\ \A j \in 1..(i-1) : n.childrens[j].urlPart # urlPart
    ELSE 0

\* index of the child found, 0 for nil
findChildren(n, urlPart) ==
    IF \E i \in 1..Len(n.childrens) :
           n.childrens[i].urlPart = urlPart \/ n.childrens[i].isWildcard
    THEN CHOOSE i \in 1..Len(n.childrens) :
           /\ n.childrens[i].urlPart = urlPart \/ n.childrens[i].isWildcard
           /\ \A j \in 1..(i-1) :
                ~(n.childrens[j].urlPart = urlPart \/ n.childrens[j].isWildcard)
    ELSE 0

RECURSIVE insertChildren(_, _, _, _)

\* variant: a child is created for the part without looking for an existing one
insertChildren_alwaysAppends(n, urlPattern, urlParts, level) ==
    IF Len(urlParts) = level
    THEN [n EXCEPT !.urlPattern = urlPattern]
    ELSE LET urlPart == urlParts[level + 1]
             isWildcard == urlPart[1] = ":" \/ urlPart[1] = "*"
             fresh == [EmptyNode EXCEPT !.urlPart = urlPart,
                                        !.isWildcard = isWildcard]
         IN [n EXCEPT !.childrens =
                Append(@, insertChildren(fresh, urlPattern, urlParts, level + 1))]

\* variant: every node on the way down is marked with the pattern
insertChildren_marksPath(n, urlPattern, urlParts, level) ==
    IF Len(urlParts) = level
    THEN [n EXCEPT !.urlPattern = urlPattern]
    ELSE LET urlPart == urlParts[level + 1]
             child == findChildren(n, urlPart)
             marked == [n EXCEPT !.urlPattern = urlPattern]
         IN IF child = 0
            THEN LET isWildcard == urlPart[1] = ":" \/ urlPart[1] = "*"
                     fresh == [EmptyNode EXCEPT !.urlPart = urlPart,
                                                !.isWildcard = isWildcard]
                 IN [marked EXCEPT !.childrens =
                        Append(@, insertChildren(fresh, urlPattern, urlParts, level + 1))]
            ELSE [marked EXCEPT !.childrens[child] =
                        insertChildren(@, urlPattern, urlParts, level + 1)]

insertChildren(n, urlPattern, urlParts, level) ==
    IF Len(urlParts) = level
    THEN [n EXCEPT !.urlPattern = urlPattern]
    ELSE LET urlPart == urlParts[level + 1]
             child == findChildren(n, urlPart)
         IN IF child = 0
            THEN LET isWildcard == urlPart[1] = ":" \/ urlPart[1] = "*"
                     fresh == [EmptyNode EXCEPT !.urlPart = urlPart,
                                                !.isWildcard = isWildcard]
                 IN [n EXCEPT !.childrens =
                        Append(@, insertChildren(fresh, urlPattern, urlParts, level + 1))]
            ELSE [n EXCEPT !.childrens[child] =
                        insertChildren(@, urlPattern, urlParts, level + 1)]

\* variant: parameter and wildcard children are not candidates
getChildren_literalOnly(n, urlPart) ==
    LET Candidate(c) == c.urlPart = urlPart
    IN SelectSeq(n.childrens, Candidate)

\* variant: the parameter and wildcard children come before the literal ones
getChildren_wildcardFirst(n, urlPart) ==
    LET Wild(c) == c.isWildcard
        Literal(c) == c.urlPart = urlPart /\ ~c.isWildcard
    IN SelectSeq(n.childrens, Wild) \o SelectSeq(n.childrens, Literal)

getChildren(n, urlPart) ==
    LET Candidate(c) == c.urlPart = urlPart \/ c.isWildcard
    IN SelectSeq(n.childrens, Candidate)

\* <<>> for nil, <<node>> for a node
RECURSIVE findNode(_, _, _)

\* variant: a terminal node is returned although segments of the request remain
findNode_prefixMatch(n, searchParts, level) ==
    IF Len(searchParts) = level \/ n.urlPattern # <<>>
    THEN IF n.urlPattern = <<>> THEN <<>> ELSE <<n>>
    ELSE LET urlPart == searchParts[level + 1]
             cs == getChildren(n, urlPart)
         IN IF cs = <<>> THEN <<>>
            ELSE LET result == findNode(cs[1], searchParts, level + 1)
                 IN IF result # <<>> THEN result ELSE <<>>

\* variant: when the first candidate fails the later candidates are tried
findNode_backtracks(n, searchParts, level) ==
    IF Len(searchParts) = level \/ HasPrefix(n.urlPart, <<"*">>)
    THEN IF n.urlPattern = <<>> THEN <<>> ELSE <<n>>
    ELSE LET urlPart == searchParts[level + 1]
             cs == getChildren(n, urlPart)
             results == [i \in 1..Len(cs) |-> findNode(cs[i], searchParts, level + 1)]
             hits == {i \in 1..Len(cs) : results[i] # <<>>}
         IN IF hits = {} THEN <<>>
            ELSE results[CHOOSE i \in hits : \A j \in hits : i <= j]

\* variant: when the segments are used up at a node that is no terminus,
\* a literal child that is a terminus is returned
findNode_literalPastEnd(n, searchParts, level) ==
    IF Len(searchParts) = level \/ HasPrefix(n.urlPart, <<"*">>)
    THEN IF n.urlPattern = <<>>
         THEN LET Ends(c) == ~c.isWildcard /\ c.urlPattern # <<>>
                  cs == SelectSeq(n.childrens, Ends)
              IN IF Len(searchParts) = level /\ cs # <<>> THEN <<cs[1]>> ELSE <<>>
         ELSE <<n>>
    ELSE LET urlPart == searchParts[level + 1]
             cs == getChildren(n, urlPart)
         IN IF cs = <<>> THEN <<>>
            ELSE LET result == findNode(cs[1], searchParts, level + 1)
                 IN IF result # <<>> THEN result ELSE <<>>

findNode(n, searchParts, level) ==
    IF Len(searchParts) = level \/ HasPrefix(n.urlPart, <<"*">>)
    THEN IF n.urlPattern = <<>> THEN <<>> ELSE <<n>>
    ELSE LET urlPart == searchParts[level + 1]
             cs == getChildren(n, urlPart)
         IN IF cs = <<>> THEN <<>>
            ELSE LET result == findNode(cs[1], searchParts, level + 1)
                 IN IF result # <<>> THEN result ELSE <<>>

----------------------------------------------------------------------------
(* router.go: route table                                                  *)

\* variant: the handlers are added to those already stored under the key
addRoute_appends(r, requestMethod, urlPattern, handler) ==
    LET urlParts == createURLParts(urlPattern)
        rootNode == IF requestMethod \in DOMAIN r.nodes
                    THEN r.nodes[requestMethod] ELSE EmptyNode
        key == Sprintf(requestMethod, urlPattern)
        old == IF key \in DOMAIN r.handlers THEN r.handlers[key] ELSE <<>>
    IN [r EXCEPT
          !.nodes = MapPut(@, requestMethod,
                           insertChildren(rootNode, urlPattern, urlParts, 0)),
          !.handlers = MapPut(@, key, old \o handler)]

addRoute(r, requestMethod, urlPattern, handler) ==
    LET urlParts == createURLParts(urlPattern)
        rootNode == IF requestMethod \in DOMAIN r.nodes
                    THEN r.nodes[requestMethod] ELSE EmptyNode
        key == Sprintf(requestMethod, urlPattern)
    IN [r EXCEPT
          !.nodes = MapPut(@, requestMethod,
                           insertChildren(rootNode, urlPattern, urlParts, 0)),
          !.handlers = MapPut(@, key, handler)]

RECURSIVE BindParams(_, _, _, _)
\* variant: a parameter is bound to the segment before its own
BindParams_shifted(patternParts, searchParts, index, params) ==
    IF index > Len(patternParts) THEN params
    ELSE LET path == patternParts[index]
             p1 == IF path[1] = ":"
                   THEN MapPut(params, Tail(path),
                               searchParts[IF index > 1 THEN index - 1 ELSE 1])
                   ELSE params
             p2 == IF path[1] = "*" /\ Len(path) > 1
                   THEN MapPut(p1, Tail(path),
                               Join(SubSeq(searchParts, index, Len(searchParts))))
                   ELSE p1
         IN BindParams(patternParts, searchParts, index + 1, p2)

\* variant: the wildcard takes one segment only
BindParams_oneSegment(patternParts, searchParts, index, params) ==
    IF index > Len(patternParts) THEN params
    ELSE LET path == patternParts[index]
             p1 == IF path[1] = ":"
                   THEN MapPut(params, Tail(path), searchParts[index])
                   ELSE params
             p2 == IF path[1] = "*" /\ Len(path) > 1
                   THEN MapPut(p1, Tail(path), searchParts[index])
                   ELSE p1
         IN BindParams(patternParts, searchParts, index + 1, p2)

\* variant: a bare '*' segment binds the empty name
BindParams_bareWildcard(patternParts, searchParts, index, params) ==
    IF index > Len(patternParts) THEN params
    ELSE LET path == patternParts[index]
             p1 == IF path[1] = ":"
                   THEN MapPut(params, Tail(path), searchParts[index])
                   ELSE params
             p2 == IF path[1] = "*"
                   THEN MapPut(p1, Tail(path),
                               Join(SubSeq(searchParts, index, Len(searchParts))))
                   ELSE p1
         IN BindParams(patternParts, searchParts, index + 1, p2)

BindParams(patternParts, searchParts, index, params) ==
    IF index > Len(patternParts) THEN params
    ELSE LET path == patternParts[index]
             p1 == IF path[1] = ":"
                   THEN MapPut(params, Tail(path), searchParts[index])
                   ELSE params
             p2 == IF path[1] = "*" /\ Len(path) > 1
                   THEN MapPut(p1, Tail(path),
                               Join(SubSeq(searchParts, index, Len(searchParts))))
                   ELSE p1
         IN BindParams(patternParts, searchParts, index + 1, p2)

\* variant: a method without a trie is looked up in the trie of another method
findRoute_otherMethod(r, requestMethod, urlPath) ==
    LET searchParts == createURLParts(urlPath)
        method == IF requestMethod \in DOMAIN r.nodes \/ DOMAIN r.nodes = {}
                  THEN requestMethod
                  ELSE CHOOSE m \in DOMAIN r.nodes : TRUE
    IN IF method \notin DOMAIN r.nodes
       THEN [node |-> <<>>, params |-> EmptyMap]
       ELSE LET node == findNode(r.nodes[method], searchParts, 0)
            IN IF node # <<>>
               THEN [node |-> node,
                     params |-> BindParams(createURLParts(node[1].urlPattern),
                                           searchParts, 1, EmptyMap)]
               ELSE [node |-> <<>>, params |-> EmptyMap]

\* node is <<>> for nil
findRoute(r, requestMethod, urlPath) ==
    LET searchParts == createURLParts(urlPath)
    IN IF requestMethod \notin DOMAIN r.nodes
       THEN [node |-> <<>>, params |-> EmptyMap]
       ELSE LET node == findNode(r.nodes[requestMethod], searchParts, 0)
            IN IF node # <<>>
               THEN [node |-> node,
                     params |-> BindParams(createURLParts(node[1].urlPattern),
                                           searchParts, 1, EmptyMap)]
               ELSE [node |-> <<>>, params |-> EmptyMap]

----------------------------------------------------------------------------
(* context.go: request context and handler chain                           *)

StatusOK == 200
StatusNotFound == 404
StatusInternalServerError == 500

\* A HandlerFunc: who registered it (role, group g, position i), how many
\* times its body calls c.Next() between its before and after work, and the
\* status of the plain-text response it writes (0: it writes nothing).
Handler(role, g, i, nexts, status) ==
    [role |-> role, g |-> g, i |-> i, nexts |-> nexts, status |-> status,
     panics |-> FALSE]

\* a HandlerFunc whose body panics after its before work
Faulty(h) == [h EXCEPT !.panics = TRUE]

newContext(method, path) ==
    [Method |-> method, Path |-> path, Params |-> EmptyMap,
     handlers |-> <<>>, cursor |-> -1, trace |-> <<>>, writer |-> <<>>,
     fault |-> FALSE]

WriterOp(op, text, code) == [op |-> op, text |-> text, code |-> code]

String(c, statusCode, text) ==
    [c EXCEPT !.writer = @ \o <<WriterOp("SetHeader", "text/plain", 0),
                                WriterOp("WriteHeader", "", statusCode),
                                WriterOp("Write", text, 0)>>]

SetContentType(c, contentType) ==
    [c EXCEPT !.writer = Append(@, WriterOp("SetHeader", contentType, 0))]

Status(c, statusCode) ==
    [c EXCEPT !.writer = Append(@, WriterOp("WriteHeader", "", statusCode))]

Write(c, body) ==
    [c EXCEPT !.writer = Append(@, WriterOp("Write", body, 0))]

\* json.Marshal: a string value becomes its quoted form, a channel gives an error
Marshal(object) ==
    IF object.kind = "string"
    THEN [err |-> FALSE, rs |-> <<"\"">> \o object.value \o <<"\"">>]
    ELSE [err |-> TRUE, rs |-> <<>>]

\* variant: the headers are written before the value is serialized
JSON_headersFirst(c, statusCode, object) ==
    LET m == Marshal(object)
        c1 == Status(SetContentType(c, "application/json"), statusCode)
    IN IF m.err
       THEN String(c1, StatusInternalServerError, "internal server error")
       ELSE Write(c1, m.rs)

JSON(c, statusCode, object) ==
    LET m == Marshal(object)
    IN IF m.err
       THEN String(c, StatusInternalServerError, "internal server error")
       ELSE Write(Status(SetContentType(c, "application/json"), statusCode), m.rs)

\* variant: the status code is written before the content type is set
HTML_statusFirst(c, statusCode, html) ==
    Write(SetContentType(Status(c, statusCode), "text/html"), html)

HTML(c, statusCode, html) ==
    Write(Status(SetContentType(c, "text/html"), statusCode), html)

Data(c, statusCode, binary) ==
    Write(Status(c, statusCode), binary)

RECURSIVE Next(_), Invoke(_, _), NextTimes(_, _)

\* variant: the last handler of the list is never reached
Next_skipsLast(c) ==
    LET c1 == [c EXCEPT !.cursor = @ + 1]
    IN IF c1.cursor < Len(c1.handlers) - 1
       THEN Invoke(c1.handlers[c1.cursor + 1], c1)
       ELSE c1

\* variant: the cursor is put back to the called position when the handler returns
Next_restoresCursor(c) ==
    LET c1 == [c EXCEPT !.cursor = @ + 1]
    IN IF c1.cursor < Len(c1.handlers)
       THEN [Invoke(c1.handlers[c1.cursor + 1], c1) EXCEPT !.cursor = c1.cursor]
       ELSE c1

\* variant: the cursor stops at the length of the list
Next_capsCursor(c) ==
    LET c1 == [c EXCEPT !.cursor = IF @ < Len(c.handlers) THEN @ + 1 ELSE @]
    IN IF c.cursor + 1 < Len(c1.handlers)
       THEN Invoke(c1.handlers[c1.cursor + 1], c1)
       ELSE c1

Next(c) ==
    LET c1 == [c EXCEPT !.cursor = @ + 1]
    IN IF c1.cursor < Len(c1.handlers)
       THEN Invoke(c1.handlers[c1.cursor + 1], c1)
       ELSE c1

\* n calls of c.Next() in a handler body; a panic in flight skips the rest
NextTimes(c, n) == IF n = 0 \/ c.fault THEN c ELSE NextTimes(Next(c), n - 1)

\* the body of a handler: before work, its response, its calls of Next, after work
Invoke(h, c) ==
    LET pos == c.cursor
        before == [c EXCEPT !.trace = Append(@, [pos |-> pos, h |-> h, ev |-> "before"])]
        written == IF h.status = 0 THEN before
                   ELSE String(before, h.status,
                               IF h.role = "notFound" THEN "nano/1.0 not found" ELSE "ok")
        forwarded == NextTimes(written, h.nexts)
        after(x) == [x EXCEPT !.trace = Append(@, [pos |-> pos, h |-> h, ev |-> "after"])]
    IN IF h.panics
       THEN [before EXCEPT !.fault = TRUE]
       ELSE IF ~forwarded.fault
       THEN after(forwarded)
       ELSE IF h.role = "recovery"
       THEN after(String([forwarded EXCEPT !.fault = FALSE],
                         StatusInternalServerError, "500 Internal Server Error"))
       ELSE forwarded

----------------------------------------------------------------------------
(* router.go: dispatch                                                     *)

notFoundHandler == Handler("notFound", 0, 0, 0, StatusNotFound)

\* variant: the built-in responder is appended whatever the user registered
serveDefaultHandler_builtinOnly(r, c) ==
    LET r1 == IF r.defaultHandler = <<>>
              THEN [r EXCEPT !.defaultHandler = <<notFoundHandler>>]
              ELSE r
        c1 == [c EXCEPT !.handlers = Append(@, notFoundHandler)]
    IN [r |-> r1, c |-> Next(c1)]

\* variant: the fallback is called directly, the cursor stays where it was
serveDefaultHandler_direct(r, c) ==
    LET r1 == IF r.defaultHandler = <<>>
              THEN [r EXCEPT !.defaultHandler = <<notFoundHandler>>]
              ELSE r
        c1 == [c EXCEPT !.handlers = Append(@, r1.defaultHandler[1])]
    IN [r |-> r1, c |-> Invoke(r1.defaultHandler[1], c1)]

serveDefaultHandler(r, c) ==
    LET r1 == IF r.defaultHandler = <<>>
              THEN [r EXCEPT !.defaultHandler = <<notFoundHandler>>]
              ELSE r
        c1 == [c EXCEPT !.handlers = Append(@, r1.defaultHandler[1])]
    IN [r |-> r1, c |-> Next(c1)]

\* variant: the request's list is built in the storage of the route's list
handle_sharesRouteList(r, c) ==
    LET f == findRoute(r, c.Method, c.Path)
    IN IF f.node # <<>>
       THEN LET key == Sprintf(c.Method, f.node[1].urlPattern)
                hs == IF key \in DOMAIN r.handlers THEN r.handlers[key] ELSE <<>>
                c1 == [c EXCEPT !.Params = f.params, !.handlers = @ \o hs]
                r1 == IF key \in DOMAIN r.handlers
                      THEN [r EXCEPT !.handlers[key] = c1.handlers]
                      ELSE r
            IN [r |-> r1, c |-> Next(c1)]
       ELSE LET d == serveDefaultHandler(r, c)
            IN [r |-> d.r, c |-> IF d.c.fault THEN d.c ELSE Next(d.c)]

handle(r, c) ==
    LET f == findRoute(r, c.Method, c.Path)
    IN IF f.node # <<>>
       THEN LET key == Sprintf(c.Method, f.node[1].urlPattern)
                hs == IF key \in DOMAIN r.handlers THEN r.handlers[key] ELSE <<>>
                c1 == [c EXCEPT !.Params = f.params, !.handlers = @ \o hs]
            IN [r |-> r, c |-> Next(c1)]
       ELSE LET d == serveDefaultHandler(r, c)
            IN [r |-> d.r, c |-> IF d.c.fault THEN d.c ELSE Next(d.c)]

----------------------------------------------------------------------------
(* nano.go: engine and router groups                                       *)

MethodGet == <<"G", "E", "T">>
MethodPost == <<"P", "O", "S", "T">>

New == <<[prefix |-> <<>>, middlewares |-> <<>>, parent |-> 0]>>

\* rg.Default(handler): log.Fatal ends the process when a handler is set
Default(r, handler) ==
    IF r.defaultHandler # <<>>
    THEN [r |-> r, fatal |-> TRUE]
    ELSE [r |-> [r EXCEPT !.defaultHandler = <<handler>>], fatal |-> FALSE]

\* rg.Use(middleware) on group number g
Use(gs, g, middleware) ==
    [gs EXCEPT ![g].middlewares = Append(@, middleware)]

\* rg.Group(prefix) on group number g
Group(gs, g, prefix) ==
    Append(gs, [prefix |-> gs[g].prefix \o prefix, middlewares |-> <<>>, parent |-> g])

\* rg.addRoute on group number g
groupAddRoute(r, gs, g, requestMethod, urlPattern, handler) ==
    addRoute(r, requestMethod, gs[g].prefix \o urlPattern, handler)

RECURSIVE collectMiddlewares(_, _, _)

\* variant: the middlewares of a later group come first
collectMiddlewares_reversed(gs, path, middlewares) ==
    IF gs = <<>> THEN middlewares
    ELSE collectMiddlewares(Tail(gs), path,
             IF HasPrefix(path, Head(gs).prefix)
             THEN Head(gs).middlewares \o middlewares
             ELSE middlewares)

collectMiddlewares(gs, path, middlewares) ==
    IF gs = <<>> THEN middlewares
    ELSE collectMiddlewares(Tail(gs), path,
             IF HasPrefix(path, Head(gs).prefix)
             THEN middlewares \o Head(gs).middlewares
             ELSE middlewares)

ServeHTTP(r, gs, method, path) ==
    LET middlewares == collectMiddlewares(gs, path, <<>>)
        c == [newContext(method, path) EXCEPT !.handlers = middlewares]
    IN handle(r, c)

----------------------------------------------------------------------------
(* State machine.                                                          *)

Router == [nodes |-> nodes, handlers |-> handlers, defaultHandler |-> defaultHandler]

Init ==
    /\ nodes = EmptyMap
    /\ handlers = EmptyMap
    /\ defaultHandler = <<>>
    /\ groups = New
    /\ running = TRUE
    /\ calls = 0
    /\ last = <<>>
    /\ found = <<>>
    /\ ctx = <<>>

SetRouter(r) ==
    /\ nodes' = r.nodes
    /\ handlers' = r.handlers
    /\ defaultHandler' = r.defaultHandler

----------------------------------------------------------------------------
(* Inputs.                                                                 *)

SegA == <<"a">>
SegB == <<"b">>
SegAB == <<"a", "b">>
ParamX == <<":", "x">>
ParamY == <<":", "y">>
WildP == <<"*", "p">>
Star == <<"*">>

RECURSIVE Render(_, _)
Render(parts, trail) ==
    IF parts = <<>> THEN (IF trail THEN <<"/">> ELSE <<>>)
    ELSE <<"/">> \o Head(parts) \o Render(Tail(parts), trail)

SeqsUpTo(S, n) == UNION {[1..k -> S] : k \in 0..n}

\* segment lists of the patterns registered directly on a router
PatternParts ==
    { <<>>, <<SegA>>, <<ParamX>>, <<SegA, SegB>>, <<SegA, ParamX>>,
      <<SegA, WildP>>, <<ParamX, ParamX>>, <<ParamX, ParamY>>,
      <<SegA, ParamX, SegB>>, <<SegA, Star>> }

Patterns ==
    {Render(p, FALSE) : p \in PatternParts}
        \cup {Render(<<>>, TRUE), Render(<<SegA>>, TRUE)}

RouteInputs ==
    ({MethodGet} \X Patterns)
        \cup ({MethodPost} \X {Render(<<SegA>>, FALSE), Render(<<ParamX>>, FALSE)})

Methods == {MethodGet, MethodPost}

RequestPaths ==
    {Render(s, t) : s \in SeqsUpTo({SegA, SegB}, MaxReqParts), t \in BOOLEAN}

\* patterns of one method that share their first segments
OverlappingPatterns ==
    {Render(p, FALSE) : p \in { <<SegA>>, <<ParamX>>, <<SegA, SegB>>, <<ParamX, SegB>> }}

\* the handlers of a registration made directly on the router
RouteHandlerList(n) == [i \in 1..n |-> Handler("route", 0, i, 0, StatusOK)]

\* strings given to createURLParts: patterns and paths, well formed or not
Alphabet == {"/", "a", "*"}

PartInputs == SeqsUpTo(Alphabet, MaxLen)

\* arguments of the response-writing calls
Statuses == {StatusOK, StatusNotFound}

Objects == {[kind |-> "string", value |-> SegA], [kind |-> "chan", value |-> <<>>]}

Bodies == {"ok", "<h1>ok</h1>"}

\* number of bodies written on the context
Writes(c) == Cardinality({k \in 1..Len(c.writer) : c.writer[k].op = "Write"})

\* engine level
Prefixes == {Render(<<SegA>>, FALSE)}

EnginePatterns == {Render(<<SegB>>, FALSE), Render(<<SegAB>>, FALSE)}

EnginePaths ==
    {Render(s, FALSE) : s \in { <<SegB>>, <<SegAB>>, <<SegA, SegB>>,
                                <<SegA, SegA, SegB>>, <<SegA>> }}

Requests ==
    ({MethodGet} \X EnginePaths) \cup {<<MethodPost, Render(<<SegB>>, FALSE)>>}

Middleware(g, i, nexts) == Handler("mw", g, i, nexts, 0)

\* the handler Recovery() returns: it defers the recover and calls c.Next()
Recovery(g, i) == Handler("recovery", g, i, 1, 0)

\* handler lists of a route registered through group g: the final handler
\* answers, a handler before it forwards
RouteHandlers(g) ==
    { <<Handler("route", g, 1, n, StatusOK)>> : n \in 0..1 }
        \cup { <<Handler("route", g, 1, 1, 0), Handler("route", g, 2, 0, StatusOK)>> }

DefaultHandlers == { Handler("default", 0, i, 0, StatusOK) : i \in 1..2 }

RECURSIVE TotalMiddlewares(_)
TotalMiddlewares(gs) ==
    IF gs = <<>> THEN 0 ELSE Len(Head(gs).middlewares) + TotalMiddlewares(Tail(gs))

----------------------------------------------------------------------------
(* Actions.                                                                *)

\* router.addRoute with one handler
DoAddRoute ==
    \E inp \in RouteInputs :
        /\ running
        /\ calls < MaxRoutes
        /\ SetRouter(addRoute(Router, inp[1], inp[2], RouteHandlerList(1)))
        /\ calls' = calls + 1
        /\ last' = <<inp>>
        /\ found' = <<>>
        /\ UNCHANGED <<groups, running, ctx>>

\* router.addRoute on GET with patterns that overlap
DoAddRouteGET ==
    \E p \in OverlappingPatterns :
        /\ running
        /\ calls < MaxReinsert
        /\ SetRouter(addRoute(Router, MethodGet, p, RouteHandlerList(1)))
        /\ calls' = calls + 1
        /\ last' = <<<<MethodGet, p>>>>
        /\ found' = <<>>
        /\ UNCHANGED <<groups, running, ctx>>

\* router.addRoute with n handlers
AddRouteHandlers(inp, n) ==
    /\ running
    /\ calls < MaxRoutes
    /\ SetRouter(addRoute(Router, inp[1], inp[2], RouteHandlerList(n)))
    /\ calls' = calls + 1
    /\ last' = <<inp>>
    /\ found' = <<>>
    /\ UNCHANGED <<groups, running, ctx>>

DoAddRouteHandlers ==
    \E inp \in RouteInputs, n \in 1..MaxHandlers : AddRouteHandlers(inp, n)

DoFindRoute ==
    \E m \in Methods, path \in RequestPaths :
        /\ running
        /\ LET f == findRoute(Router, m, path)
           IN found' = <<[method |-> m, path |-> path,
                          node |-> f.node, params |-> f.params]>>
        /\ UNCHANGED <<nodes, handlers, defaultHandler, groups, running, calls, last, ctx>>

\* app.Use on the root group, the middleware calling Next n times
DoUse ==
    \E n \in 0..MaxNext :
        /\ running
        /\ TotalMiddlewares(groups) < MaxUse
        /\ groups' = Use(groups, 1,
                         Middleware(1, Len(groups[1].middlewares) + 1, n))
        /\ ctx' = <<>>
        /\ UNCHANGED <<nodes, handlers, defaultHandler, running, calls, last, found>>

\* rg.Use on any group, the middleware forwarding once
DoGroupUse ==
    \E g \in 1..Len(groups) :
        /\ running
        /\ TotalMiddlewares(groups) < MaxUse
        /\ groups' = Use(groups, g,
                         Middleware(g, Len(groups[g].middlewares) + 1, 1))
        /\ ctx' = <<>>
        /\ UNCHANGED <<nodes, handlers, defaultHandler, running, calls, last, found>>

DoGroup ==
    \E g \in 1..Len(groups), prefix \in Prefixes :
        /\ running
        /\ Len(groups) < MaxGroups
        /\ groups' = Group(groups, g, prefix)
        /\ ctx' = <<>>
        /\ UNCHANGED <<nodes, handlers, defaultHandler, running, calls, last, found>>

\* app.GET on the root group
DoGET ==
    \E p \in EnginePatterns, hs \in RouteHandlers(1) :
        /\ running
        /\ calls < MaxEngineRoutes
        /\ SetRouter(groupAddRoute(Router, groups, 1, MethodGet, p, hs))
        /\ calls' = calls + 1
        /\ last' = <<<<MethodGet, groups[1].prefix \o p>>>>
        /\ ctx' = <<>>
        /\ UNCHANGED <<groups, running, found>>

\* rg.GET on any group, with one handler
DoGroupGET ==
    \E g \in 1..Len(groups), p \in EnginePatterns :
        /\ running
        /\ calls < MaxEngineRoutes
        /\ SetRouter(groupAddRoute(Router, groups, g, MethodGet, p,
                                   <<Handler("route", g, 1, 0, StatusOK)>>))
        /\ calls' = calls + 1
        /\ last' = <<<<MethodGet, groups[g].prefix \o p>>>>
        /\ ctx' = <<>>
        /\ UNCHANGED <<groups, running, found>>

\* app.POST on the root group: one handler
DoPOST ==
    \E p \in EnginePatterns :
        /\ running
        /\ calls < MaxMethodRoutes
        /\ SetRouter(groupAddRoute(Router, groups, 1, MethodPost, p,
                                   <<Handler("route", 1, 3, 0, StatusOK)>>))
        /\ calls' = calls + 1
        /\ last' = <<<<MethodPost, groups[1].prefix \o p>>>>
        /\ ctx' = <<>>
        /\ UNCHANGED <<groups, running, found>>

\* createURLParts on a string, as TestCreateURLParts calls it
DoCreateURLParts ==
    \E s \in PartInputs :
        /\ found' = <<[input |-> s, urlParts |-> createURLParts(s)]>>
        /\ UNCHANGED <<nodes, handlers, defaultHandler, groups, running, calls, last, ctx>>

\* app.Use(Recovery())
DoUseRecovery ==
    /\ running
    /\ TotalMiddlewares(groups) < MaxUse
    /\ groups' = Use(groups, 1, Recovery(1, Len(groups[1].middlewares) + 1))
    /\ ctx' = <<>>
    /\ UNCHANGED <<nodes, handlers, defaultHandler, running, calls, last, found>>

\* app.Use of a middleware that panics
DoUseFaulty ==
    /\ running
    /\ TotalMiddlewares(groups) < MaxUse
    /\ groups' = Use(groups, 1,
                     Faulty(Middleware(1, Len(groups[1].middlewares) + 1, 0)))
    /\ ctx' = <<>>
    /\ UNCHANGED <<nodes, handlers, defaultHandler, running, calls, last, found>>

\* app.GET with a handler that panics
DoGETFaulty ==
    \E p \in EnginePatterns :
        /\ running
        /\ calls < MaxEngineRoutes
        /\ SetRouter(groupAddRoute(Router, groups, 1, MethodGet, p,
                                   <<Faulty(Handler("route", 1, 1, 0, 0))>>))
        /\ calls' = calls + 1
        /\ last' = <<<<MethodGet, groups[1].prefix \o p>>>>
        /\ ctx' = <<>>
        /\ UNCHANGED <<groups, running, found>>

\* app.Default with a handler that panics
DoDefaultFaulty ==
    /\ running
    /\ LET d == Default(Router, Faulty(Handler("default", 0, 1, 0, 0)))
       IN /\ SetRouter(d.r)
          /\ running' = ~d.fatal
    /\ ctx' = <<>>
    /\ UNCHANGED <<groups, calls, last, found>>

\* newContext for a request, as a test makes it
DoNewContext ==
    \E req \in Requests :
        /\ running
        /\ ctx' = <<newContext(req[1], req[2])>>
        /\ UNCHANGED <<nodes, handlers, defaultHandler, groups, running, calls, last, found>>

MayWrite == running /\ ctx # <<>> /\ Writes(ctx[1]) < MaxWrites

JSONStep(statusCode, object) ==
    /\ MayWrite
    /\ ctx' = <<JSON(ctx[1], statusCode, object)>>
    /\ UNCHANGED <<nodes, handlers, defaultHandler, groups, running, calls, last, found>>

StringStep(statusCode, text) ==
    /\ MayWrite
    /\ ctx' = <<String(ctx[1], statusCode, text)>>
    /\ UNCHANGED <<nodes, handlers, defaultHandler, groups, running, calls, last, found>>

HTMLStep(statusCode, html) ==
    /\ MayWrite
    /\ ctx' = <<HTML(ctx[1], statusCode, html)>>
    /\ UNCHANGED <<nodes, handlers, defaultHandler, groups, running, calls, last, found>>

DataStep(statusCode, binary) ==
    /\ MayWrite
    /\ ctx' = <<Data(ctx[1], statusCode, binary)>>
    /\ UNCHANGED <<nodes, handlers, defaultHandler, groups, running, calls, last, found>>

DoJSON == \E statusCode \in Statuses, object \in Objects : JSONStep(statusCode, object)

DoString == \E statusCode \in Statuses, text \in Bodies : StringStep(statusCode, text)

DoHTML == \E statusCode \in Statuses, html \in Bodies : HTMLStep(statusCode, html)

DoData == \E statusCode \in Statuses, binary \in Bodies : DataStep(statusCode, binary)

DoDefault ==
    \E h \in DefaultHandlers :
        /\ running
        /\ LET d == Default(Router, h)
           IN /\ SetRouter(d.r)
              /\ running' = ~d.fatal
        /\ ctx' = <<>>
        /\ UNCHANGED <<groups, calls, last, found>>

DoServeHTTP ==
    \E req \in Requests :
        /\ running
        /\ LET s == ServeHTTP(Router, groups, req[1], req[2])
           IN /\ SetRouter(s.r)
              /\ ctx' = <<s.c>>
        /\ UNCHANGED <<groups, running, calls, last, found>>

RouterStep == DoAddRoute \/ DoFindRoute

TableStep == DoAddRouteHandlers

ReinsertStep == DoAddRouteGET \/ DoFindRoute

EngineStep == DoUse \/ DoGET \/ DoDefault \/ DoServeHTTP

MethodsStep == DoGET \/ DoPOST \/ DoServeHTTP

ResponseStep == DoNewContext \/ DoJSON \/ DoString \/ DoHTML \/ DoData

RecoveryStep ==
    DoUse \/ DoUseRecovery \/ DoUseFaulty \/ DoGETFaulty \/ DoDefaultFaulty \/ DoServeHTTP

PartsStep == DoCreateURLParts

GroupsStep == DoGroup \/ DoGroupUse \/ DoGroupGET \/ DoServeHTTP

\* lookups on a router
SpecRouter == Init /\ [][RouterStep]_vars

\* lookups on a router whose patterns overlap
SpecReinsert == Init /\ [][ReinsertStep]_vars

\* the route table of a router
SpecTable == Init /\ [][TableStep]_vars

\* an engine with its root group: middlewares, routes, fallback, requests
Spec == Init /\ [][EngineStep]_vars

\* an engine with routes on two methods
SpecMethods == Init /\ [][MethodsStep]_vars

\* the response-writing operations of a context
SpecResponse == Init /\ [][ResponseStep]_vars

\* an engine with the Recovery middleware and handlers that panic
SpecRecovery == Init /\ [][RecoveryStep]_vars

\* the segmentation of patterns and paths
SpecParts == Init /\ [][PartsStep]_vars

\* an engine with router groups
SpecGroups == Init /\ [][GroupsStep]_vars

----------------------------------------------------------------------------
(* Vocabulary of the properties.                                           *)

Registered(m, p) == Sprintf(m, p) \in DOMAIN handlers

RegisteredOn(m) == {p \in Patterns : Registered(m, p)}

IsParam(seg) == seg[1] = ":"

IsWild(seg) == seg[1] = "*"

EndsInWildcard(parts) == parts # <<>> /\ IsWild(parts[Len(parts)])

\* the request path matches the pattern segment by segment
Matches(p, path) ==
    LET pp == createURLParts(p)
        sp == createURLParts(path)
        SegMatch(i) == IsParam(pp[i]) \/ IsWild(pp[i]) \/ pp[i] = sp[i]
    IN /\ IF EndsInWildcard(pp) THEN Len(sp) >= Len(pp) ELSE Len(sp) = Len(pp)
       /\ \A i \in 1..Len(pp) : SegMatch(i)

\* two patterns that the trie keeps apart: their segment lists differ, and
\* where they first differ both carry a literal segment
Compatible(p, q) ==
    LET pp == createURLParts(p)
        qq == createURLParts(q)
        n == IF Len(pp) < Len(qq) THEN Len(pp) ELSE Len(qq)
        Differ == {i \in 1..n : pp[i] # qq[i]}
    IN /\ pp # qq
       /\ Differ # {} =>
            LET i == CHOOSE j \in Differ : \A k \in Differ : j <= k
            IN ~IsParam(pp[i]) /\ ~IsWild(pp[i]) /\ ~IsParam(qq[i]) /\ ~IsWild(qq[i])

Unambiguous(m, p) ==
    /\ p # <<>>
    /\ \A q \in RegisteredOn(m) \ {p} : Compatible(p, q)

FoundNode == found[1].node[1]

FoundParts == createURLParts(FoundNode.urlPattern)

SearchParts == createURLParts(found[1].path)

Looked == found # <<>>

Resolved == found # <<>> /\ found[1].node # <<>>

----------------------------------------------------------------------------
(* C1: as claimed, after any registrations every registered pattern is     *)
(* found, under its own name, for every request path that matches it       *)
(* segment by segment.                                                     *)
C1_EveryRegisteredPatternFound ==
    Looked =>
        \A p \in RegisteredOn(found[1].method) :
            Matches(p, found[1].path) =>
                /\ found[1].node # <<>>
                /\ FoundNode.urlPattern = p

(* C1, amended: a registered non-empty pattern is found under its own name *)
(* for every request path matching it segment by segment, provided no      *)
(* other pattern registered on the method has the same segment list or     *)
(* first differs from it at a position where either one has a ':' or '*'   *)
(* segment.                                                                *)
C1_UnambiguousPatternFound ==
    Looked =>
        \A p \in RegisteredOn(found[1].method) :
            (Unambiguous(found[1].method, p) /\ Matches(p, found[1].path)) =>
                /\ found[1].node # <<>>
                /\ FoundNode.urlPattern = p

C1_Witness ==
    /\ Resolved
    /\ Cardinality(RegisteredOn(found[1].method)) >= 2
    /\ \E p \in RegisteredOn(found[1].method) :
          /\ Unambiguous(found[1].method, p)
          /\ Matches(p, found[1].path)
          /\ \E i \in 1..Len(createURLParts(p)) : IsParam(createURLParts(p)[i])
          /\ FoundNode.urlPattern = p

----------------------------------------------------------------------------
\* the name carried by a ':name' or '*name' segment
NameOf(seg) == Tail(seg)

\* a later segment of the pattern carries the same name
Rebound(parts, i) ==
    \E j \in (i+1)..Len(parts) :
        /\ IsParam(parts[j]) \/ (IsWild(parts[j]) /\ Len(parts[j]) > 1)
        /\ NameOf(parts[j]) = NameOf(parts[i])

(* C2: as claimed, when a request is matched every ':name' segment at      *)
(* position i of the matched pattern binds name to the i-th non-empty      *)
(* segment of the request.                                                 *)
C2_EveryParamBoundToItsSegment ==
    Resolved =>
        \A i \in 1..Len(FoundParts) :
            IsParam(FoundParts[i]) =>
                /\ NameOf(FoundParts[i]) \in DOMAIN found[1].params
                /\ found[1].params[NameOf(FoundParts[i])] = SearchParts[i]

(* C2, amended: when a request is matched, every ':name' segment at        *)
(* position i of the returned node's pattern whose name is not carried     *)
(* again by a later ':name' or '*name' segment of that pattern binds name  *)
(* to the i-th non-empty segment of the request.                           *)
C2_LastParamOfNameBound ==
    Resolved =>
        \A i \in 1..Len(FoundParts) :
            (IsParam(FoundParts[i]) /\ ~Rebound(FoundParts, i)) =>
                /\ NameOf(FoundParts[i]) \in DOMAIN found[1].params
                /\ found[1].params[NameOf(FoundParts[i])] = SearchParts[i]

C2_Witness ==
    /\ Resolved
    /\ Len(FoundParts) = 2
    /\ IsParam(FoundParts[1]) /\ IsParam(FoundParts[2])
    /\ ~Rebound(FoundParts, 1)
    /\ SearchParts[1] # SearchParts[2]
    /\ found[1].params[NameOf(FoundParts[1])] = SearchParts[1]
    /\ found[1].params[NameOf(FoundParts[2])] = SearchParts[2]

(* C3: when a request is matched to a pattern ending in '*name' at         *)
(* position i, name is bound to a value that splits on '/' into exactly    *)
(* the request's segments from position i onward, however many they are.   *)
C3_WildcardBindsRemainder ==
    (Resolved /\ EndsInWildcard(FoundParts)
              /\ Len(FoundParts[Len(FoundParts)]) > 1) =>
        LET i == Len(FoundParts)
            name == NameOf(FoundParts[i])
        IN /\ name \in DOMAIN found[1].params
           /\ Split(found[1].params[name]) = SubSeq(SearchParts, i, Len(SearchParts))

C3_Witness ==
    /\ Resolved /\ EndsInWildcard(FoundParts)
    /\ Len(FoundParts[Len(FoundParts)]) > 1
    /\ Len(SearchParts) >= Len(FoundParts) + 1
    /\ Len(found[1].params[NameOf(FoundParts[Len(FoundParts)])]) >= 3

----------------------------------------------------------------------------
Served == ctx # <<>>

Ctx == ctx[1]

\* the handler at position k (from 0) of the request's list was invoked
Invoked(k) == \E e \in 1..Len(Ctx.trace) : Ctx.trace[e].pos = k

Invocations(k) ==
    Cardinality({e \in 1..Len(Ctx.trace) :
                    Ctx.trace[e].pos = k /\ Ctx.trace[e].ev = "before"})

AllForwardOnce == \A k \in 1..Len(Ctx.handlers) : Ctx.handlers[k].nexts = 1

(* C4: when every handler of the request's list does its before work,     *)
(* calls Next once and does its after work, the events are the before      *)
(* events in list order followed by the after events in reverse order.     *)
C4_NestedOrder ==
    (Served /\ AllForwardOnce) =>
        LET n == Len(Ctx.handlers)
        IN /\ Len(Ctx.trace) = 2 * n
           /\ \A k \in 1..n :
                /\ Ctx.trace[k] =
                     [pos |-> k - 1, h |-> Ctx.handlers[k], ev |-> "before"]
                /\ Ctx.trace[2 * n + 1 - k] =
                     [pos |-> k - 1, h |-> Ctx.handlers[k], ev |-> "after"]

C4_Witness ==
    /\ Served /\ AllForwardOnce
    /\ Len(Ctx.handlers) = 3
    /\ Ctx.handlers[1].role = "mw" /\ Ctx.handlers[3].role = "route"
    /\ Len(Ctx.trace) = 6
    /\ Ctx.trace[3].ev = "before" /\ Ctx.trace[4].ev = "after"

(* C5: for every request, matched or not, when the handler at position k   *)
(* returns without calling Next no handler at a later position is invoked  *)
(* and the cursor is k when handle returns.                                *)
C5_NoNextStopsChain ==
    Served =>
        \A k \in 0..(Len(Ctx.handlers) - 1) :
            (Invoked(k) /\ Ctx.handlers[k + 1].nexts = 0) =>
                /\ \A j \in (k + 1)..(Len(Ctx.handlers) - 1) : ~Invoked(j)
                /\ Ctx.cursor = k

Unmatched == findRoute(Router, Ctx.Method, Ctx.Path).node = <<>>

NoUserDefault == defaultHandler = <<>> \/ defaultHandler[1].role # "default"

NoMiddlewareApplies ==
    \A g \in 1..Len(groups) :
        HasPrefix(Ctx.Path, groups[g].prefix) => groups[g].middlewares = <<>>

(* C6: an unmatched request, with no fallback registered by the user and   *)
(* no middleware applying, gets 404 with the fixed body, written exactly   *)
(* once, and the process goes on.                                          *)
C6_NotFoundResponse ==
    (Served /\ Unmatched /\ NoUserDefault /\ NoMiddlewareApplies) =>
        /\ running
        /\ Ctx.writer = <<WriterOp("SetHeader", "text/plain", 0),
                          WriterOp("WriteHeader", "", 404),
                          WriterOp("Write", "nano/1.0 not found", 0)>>
        /\ Invocations(0) = 1

C6_Witness ==
    /\ Served /\ Unmatched /\ NoUserDefault /\ NoMiddlewareApplies
    /\ calls > 0
    /\ Len(Ctx.writer) = 3

(* C7: a Default call made while a fallback registered by the user is in   *)
(* place returns control to its caller: it does not end the process.       *)
C7_SecondDefaultReturns ==
    (defaultHandler # <<>> /\ defaultHandler[1].role = "default") => running

----------------------------------------------------------------------------
\* the middlewares at the head of the request's handler list
RequestMiddlewares ==
    LET IsMw(h) == h.role = "mw" IN SelectSeq(Ctx.handlers, IsMw)

Applies(g) == HasPrefix(Ctx.Path, groups[g].prefix)

(* C8: the handlers before the route handlers (or the fallback) are        *)
(* exactly the middlewares of the groups whose prefix is a string prefix   *)
(* of the request path, in group creation order and, within a group, in    *)
(* Use order.                                                              *)
C8_MiddlewaresByPrefix ==
    Served =>
        LET mws == RequestMiddlewares
        IN /\ \A k \in 1..Len(mws) : Ctx.handlers[k] = mws[k]
           /\ \A g \in 1..Len(groups) :
                \A i \in 1..Len(groups[g].middlewares) :
                    Applies(g) <=>
                        \E k \in 1..Len(mws) : mws[k] = groups[g].middlewares[i]
           /\ \A k \in 1..Len(mws) :
                /\ mws[k].g \in 1..Len(groups)
                /\ Applies(mws[k].g)
                /\ mws[k].i \in 1..Len(groups[mws[k].g].middlewares)
                /\ mws[k] = groups[mws[k].g].middlewares[mws[k].i]
           /\ \A k \in 1..(Len(mws) - 1) :
                \/ mws[k].g < mws[k + 1].g
                \/ mws[k].g = mws[k + 1].g /\ mws[k].i < mws[k + 1].i

C8_Witness ==
    /\ Served
    /\ Len(groups) = 3
    /\ groups[2].prefix # groups[3].prefix
    /\ Len(RequestMiddlewares) = 2
    /\ RequestMiddlewares[1].g = 2 /\ RequestMiddlewares[2].g = 3
    /\ ~Unmatched

RECURSIVE DescendantOrSelf(_, _)
DescendantOrSelf(d, g) ==
    IF d = g THEN TRUE
    ELSE IF d = 0 THEN FALSE
    ELSE DescendantOrSelf(groups[d].parent, g)

(* C9: a middleware of a non-root group runs only for requests that        *)
(* resolve to a route registered through that group or one of its          *)
(* descendants, never for another group's route or for the fallback.       *)
C9_GroupMiddlewareOnlyForItsRoutes ==
    Served =>
        \A e \in 1..Len(Ctx.trace) :
            (Ctx.trace[e].h.role = "mw" /\ Ctx.trace[e].h.g # 1) =>
                \E k \in 1..Len(Ctx.handlers) :
                    /\ Ctx.handlers[k].role = "route"
                    /\ DescendantOrSelf(Ctx.handlers[k].g, Ctx.trace[e].h.g)

----------------------------------------------------------------------------
(* C10: an addRoute call, also for a key already registered, raises no     *)
(* error, leaves one entry under its key holding as many handlers as the   *)
(* call passed, adds no other entry and changes no entry of another key.   *)
C10_RegistrationReplaces ==
    [][\A inp \in RouteInputs, n \in 1..MaxHandlers :
          AddRouteHandlers(inp, n) =>
              LET key == Sprintf(inp[1], inp[2])
              IN /\ running'
                 /\ DOMAIN handlers' = (DOMAIN handlers) \cup {key}
                 /\ Len(handlers'[key]) = n
                 /\ \A k \in (DOMAIN handlers) \ {key} : handlers'[k] = handlers[k]]_vars

C10_Witness ==
    /\ calls = 2
    /\ Cardinality(DOMAIN handlers) = 1
    /\ \E k \in DOMAIN handlers : Len(handlers[k]) = 1

----------------------------------------------------------------------------
\* the step is an addRoute call for a key that is already in the route table
ReRegisters ==
    /\ calls' = calls + 1
    /\ Sprintf(last'[1][1], last'[1][2]) \in DOMAIN handlers

LookupUnchanged ==
    /\ nodes' = nodes
    /\ \A m \in Methods, path \in RequestPaths :
          findRoute(Router', m, path) = findRoute(Router, m, path)

(* C11: as claimed, an addRoute call for a (method, pattern) registered    *)
(* before leaves the trie as it was and findRoute returns, for every       *)
(* request path, the node and parameters it returned before the call.      *)
C11_ReRegistrationIdempotent ==
    [][ReRegisters => LookupUnchanged]_vars

(* C11, amended: an addRoute call that repeats the (method, pattern) of    *)
(* the addRoute call made just before it leaves the trie as it was and     *)
(* findRoute returns, for every request path, the node and parameters it   *)
(* returned before the call.                                               *)
C11_ImmediateReRegistrationIdempotent ==
    [][(ReRegisters /\ last' = last) => LookupUnchanged]_vars

C11_Witness ==
    /\ calls = 2
    /\ Cardinality(DOMAIN handlers) = 1
    /\ Sprintf(last[1][1], last[1][2]) \in DOMAIN handlers
    /\ Resolved
    /\ FoundNode.urlPattern = last[1][2]
    /\ \E i \in 1..Len(FoundParts) : IsParam(FoundParts[i])
    /\ found[1].params # EmptyMap

----------------------------------------------------------------------------
\* the path with every slash written twice
RECURSIVE Doubled(_)
Doubled(s) ==
    IF s = <<>> THEN <<>>
    ELSE (IF Head(s) = "/" THEN <<"/", "/">> ELSE <<Head(s)>>) \o Doubled(Tail(s))

SlashVariants(path) == {path \o <<"/">>, <<"/">> \o path, Doubled(path)}

(* C12: for every registration history, method and path, findRoute gives   *)
(* the same node and the same parameters for the path and for the path     *)
(* with a trailing slash added, a leading slash added or its slashes       *)
(* repeated.                                                               *)
C12_SlashesInsignificant ==
    Looked =>
        \A v \in SlashVariants(found[1].path) :
            LET f == findRoute(Router, found[1].method, v)
            IN /\ f.node = found[1].node
               /\ f.params = found[1].params

C12_Witness ==
    /\ Resolved
    /\ found[1].path # <<>>
    /\ found[1].path[Len(found[1].path)] # "/"
    /\ Len(SearchParts) = 2
    /\ Len(FoundParts) = 2
    /\ IsParam(FoundParts[2])
    /\ found[1].params[NameOf(FoundParts[2])] = SearchParts[2]
    /\ findRoute(Router, found[1].method, found[1].path \o <<"/">>).node
          = found[1].node

----------------------------------------------------------------------------
(* C13: as claimed, a request matched to a pattern without wildcard has    *)
(* exactly as many non-empty segments as the pattern, and a request        *)
(* matched to a pattern ending in '*name' has at least as many segments    *)
(* as the pattern.                                                         *)
C13_SegmentCount ==
    Resolved =>
        IF EndsInWildcard(FoundParts)
        THEN Len(SearchParts) >= Len(FoundParts)
        ELSE Len(SearchParts) = Len(FoundParts)

(* C13, amended: a request matched to a pattern has at least as many       *)
(* non-empty segments as the pattern, and exactly as many when the         *)
(* segment text of the returned node does not begin with '*'.              *)
C13_SegmentCountOfNode ==
    Resolved =>
        /\ Len(SearchParts) >= Len(FoundParts)
        /\ ~HasPrefix(FoundNode.urlPart, <<"*">>) =>
               Len(SearchParts) = Len(FoundParts)

C13_Witness ==
    /\ Resolved
    /\ Len(FoundParts) = 2
    /\ IsParam(FoundParts[2])
    /\ ~HasPrefix(FoundNode.urlPart, <<"*">>)
    /\ Cardinality(RegisteredOn(found[1].method)) = 2
    /\ \E p \in RegisteredOn(found[1].method) : EndsInWildcard(createURLParts(p))

----------------------------------------------------------------------------
\* the patterns registered on a method, read from the keys of the route table
MethodPatterns(m) ==
    { SubSeq(k, Len(m) + 2, Len(k)) :
        k \in {x \in DOMAIN handlers : HasPrefix(x, m \o <<"-">>)} }

IsLiteral(p) ==
    \A i \in 1..Len(createURLParts(p)) :
        ~IsParam(createURLParts(p)[i]) /\ ~IsWild(createURLParts(p)[i])

RouteHandlersRun ==
    LET IsRoute(h) == h.role = "route" IN SelectSeq(Ctx.handlers, IsRoute)

\* the request ended in the fallback handler, which answered
FallbackServed ==
    /\ Ctx.handlers # <<>>
    /\ defaultHandler # <<>>
    /\ Ctx.handlers[Len(Ctx.handlers)] = defaultHandler[1]
    /\ Invoked(Len(Ctx.handlers) - 1)
    /\ RouteHandlersRun = <<>>

(* C14: a request whose method has no route finds no node; a request that  *)
(* is matched runs the handlers registered under its own method; and a     *)
(* request whose path is registered (as literal patterns) under another    *)
(* method only is served by the fallback handler, 404 by default.          *)
C14_MethodsIsolated ==
    Served =>
        LET f == findRoute(Router, Ctx.Method, Ctx.Path)
        IN /\ MethodPatterns(Ctx.Method) = {} => f.node = <<>>
           /\ f.node # <<>> =>
                /\ Sprintf(Ctx.Method, f.node[1].urlPattern) \in DOMAIN handlers
                /\ RouteHandlersRun =
                      handlers[Sprintf(Ctx.Method, f.node[1].urlPattern)]
           /\ (/\ \A p \in MethodPatterns(Ctx.Method) : IsLiteral(p)
               /\ \A p \in MethodPatterns(Ctx.Method) :
                      createURLParts(p) # createURLParts(Ctx.Path)) =>
                /\ f.node = <<>>
                /\ FallbackServed
                /\ NoUserDefault =>
                      \E k \in 1..Len(Ctx.writer) :
                          Ctx.writer[k] = WriterOp("WriteHeader", "", StatusNotFound)

C14_Witness ==
    /\ Served
    /\ Ctx.Method = MethodPost
    /\ Sprintf(MethodGet, Ctx.Path) \in DOMAIN handlers
    /\ MethodPatterns(MethodPost) # {}
    /\ FallbackServed
    /\ Len(Ctx.writer) = 3

----------------------------------------------------------------------------
(* C15: serving a request writes no state shared across requests: the      *)
(* tries, the route table and the router's fallback handler are the same   *)
(* after the request as before it.                                         *)
C15_ServingWritesNoRouterState ==
    [][ctx' # <<>> =>
          /\ nodes' = nodes
          /\ handlers' = handlers
          /\ defaultHandler' = defaultHandler]_vars

----------------------------------------------------------------------------
\* the writer operations the step has added
Added == SubSeq(ctx'[1].writer, Len(ctx[1].writer) + 1, Len(ctx'[1].writer))

(* C16: a JSON call whose value cannot be serialized writes content type   *)
(* text/plain, status 500 and the fixed body, and nothing else: no JSON    *)
(* content type, not the caller's status code, no part of a JSON body;     *)
(* the process goes on.                                                    *)
C16_JSONFailureIsPlain500 ==
    [][\A statusCode \in Statuses, object \in Objects :
          (JSONStep(statusCode, object) /\ Marshal(object).err) =>
              /\ Added = <<WriterOp("SetHeader", "text/plain", 0),
                           WriterOp("WriteHeader", "", 500),
                           WriterOp("Write", "internal server error", 0)>>
              /\ running']_vars

C16_Witness ==
    /\ Served
    /\ Len(Ctx.writer) = 6
    /\ Ctx.writer[1] = WriterOp("SetHeader", "application/json", 0)
    /\ Ctx.writer[2].code = StatusOK
    /\ Ctx.writer[5] = WriterOp("WriteHeader", "", 500)
    /\ Ctx.writer[6].text = "internal server error"

OrderedResponse(ops) ==
    /\ Len(ops) = 3
    /\ ops[1].op = "SetHeader" /\ ops[1].text # ""
    /\ ops[2].op = "WriteHeader"
    /\ ops[3].op = "Write"

IsWriteStep ==
    \/ \E statusCode \in Statuses, object \in Objects : JSONStep(statusCode, object)
    \/ \E statusCode \in Statuses, text \in Bodies :
          \/ StringStep(statusCode, text)
          \/ HTMLStep(statusCode, text)

(* C17: as claimed, each of JSON, String, HTML and Data sets the content   *)
(* type, then writes the status code, then writes the body.                *)
C17_ContentTypeStatusBody ==
    [][(IsWriteStep \/ \E statusCode \in Statuses, binary \in Bodies :
                           DataStep(statusCode, binary))
          => OrderedResponse(Added)]_vars

(* C17, amended: each of JSON, String and HTML sets the content type, then *)
(* writes the status code, then writes the body; Data writes the status    *)
(* code and then the body, and sets no content type.                       *)
C17_OrderAndDataWithoutType ==
    [][/\ IsWriteStep => OrderedResponse(Added)
       /\ \A statusCode \in Statuses, binary \in Bodies :
             DataStep(statusCode, binary) =>
                 Added = <<WriterOp("WriteHeader", "", statusCode),
                           WriterOp("Write", binary, 0)>>]_vars

C17_Witness ==
    /\ Served
    /\ Len(Ctx.writer) = 5
    /\ Ctx.writer[1] = WriterOp("SetHeader", "text/html", 0)
    /\ Ctx.writer[2].op = "WriteHeader"
    /\ Ctx.writer[3].op = "Write"
    /\ Ctx.writer[4].op = "WriteHeader"
    /\ Ctx.writer[5].op = "Write"

----------------------------------------------------------------------------
\* the handler at position k (from 1) of the list was invoked and panicked
Panicked(k) == Ctx.handlers[k].panics /\ Invoked(k - 1)

RecoveryBefore(k) == \E r \in 1..(k - 1) : Ctx.handlers[r].role = "recovery"

(* C18: a panic of a handler placed after the Recovery middleware is       *)
(* caught and answered with the fixed 500 response, and handle returns     *)
(* normally; a panic of a handler with no Recovery before it unwinds out   *)
(* of handle.                                                              *)
C18_RecoveryCatchesDownstream ==
    Served =>
        \A k \in 1..Len(Ctx.handlers) :
            Panicked(k) =>
                IF RecoveryBefore(k)
                THEN /\ ~Ctx.fault
                     /\ \E w \in 1..Len(Ctx.writer) :
                           Ctx.writer[w] = WriterOp("Write", "500 Internal Server Error", 0)
                ELSE Ctx.fault

----------------------------------------------------------------------------
UserDefault == defaultHandler # <<>> /\ defaultHandler[1].role = "default"

(* C19: on a miss the handler list is the applicable middlewares followed  *)
(* by one fallback handler, the user's default if one was registered and   *)
(* the built-in responder otherwise; when every middleware calls Next once *)
(* the fallback is invoked exactly once, and with a user's default nothing *)
(* of the built-in 404 response is written.                                *)
C19_OneFallbackOnMiss ==
    (Served /\ Unmatched) =>
        LET mws == collectMiddlewares(groups, Ctx.Path, <<>>)
            n == Len(mws)
            fallback == Ctx.handlers[n + 1]
        IN /\ Len(Ctx.handlers) = n + 1
           /\ SubSeq(Ctx.handlers, 1, n) = mws
           /\ defaultHandler = <<fallback>>
           /\ fallback.role \in {"default", "notFound"}
           /\ (\A k \in 1..n : mws[k].nexts = 1) =>
                /\ Invocations(n) = 1
                /\ fallback.role = "default" =>
                      Ctx.writer = <<WriterOp("SetHeader", "text/plain", 0),
                                     WriterOp("WriteHeader", "", StatusOK),
                                     WriterOp("Write", "ok", 0)>>

C19_Witness ==
    /\ Served /\ Unmatched /\ UserDefault
    /\ Len(Ctx.handlers) = 3
    /\ Ctx.handlers[1].nexts = 1 /\ Ctx.handlers[2].nexts = 1
    /\ Invocations(2) = 1
    /\ Len(Ctx.writer) = 3

----------------------------------------------------------------------------
\* the non-empty pieces of s between slashes, in order
Pieces(s) ==
    LET NonEmpty(x) == x # <<>> IN SelectSeq(Split(s), NonEmpty)

\* position of the first piece beginning with '*', or the number of pieces
FirstWildcard(ps) ==
    IF \E i \in 1..Len(ps) : ps[i][1] = "*"
    THEN CHOOSE i \in 1..Len(ps) :
             ps[i][1] = "*" /\ \A j \in 1..(i - 1) : ps[j][1] # "*"
    ELSE Len(ps)

(* C20: createURLParts gives the pieces of its input between slashes,      *)
(* without the empty ones, in order, up to and including the first piece   *)
(* that begins with '*'; the pieces hold no slash and, joined by slashes,  *)
(* the split input is the input again.                                     *)
C20_Segmentation ==
    found # <<>> =>
        LET s == found[1].input
            urlParts == found[1].urlParts
        IN /\ Join(Split(s)) = s
           /\ \A i \in 1..Len(Split(s)) :
                 \A j \in 1..Len(Split(s)[i]) : Split(s)[i][j] # "/"
           /\ urlParts = SubSeq(Pieces(s), 1, FirstWildcard(Pieces(s)))

C20_Witness ==
    /\ found # <<>>
    /\ Len(found[1].urlParts) = 2
    /\ found[1].urlParts[2] = <<"*">>
    /\ Len(Pieces(found[1].input)) = 3
    /\ Len(Split(found[1].input)) = 4

----------------------------------------------------------------------------
\* the positions of the nodes of a trie, each the list of child indices
\* that leads to the node from the root
RECURSIVE PositionsOf(_)
PositionsOf(n) ==
    {<<>>} \cup UNION {{<<i>> \o q : q \in PositionsOf(n.childrens[i])} :
                          i \in 1..Len(n.childrens)}

RECURSIVE NodeAt(_, _)
NodeAt(n, pos) ==
    IF pos = <<>> THEN n ELSE NodeAt(n.childrens[Head(pos)], Tail(pos))

\* the nodes passed on the way to a position, the root left out
NodesTo(n, pos) == [i \in 1..Len(pos) |-> NodeAt(n, SubSeq(pos, 1, i))]

Termini(n) == {pos \in PositionsOf(n) : NodeAt(n, pos).urlPattern # <<>>}

\* the registration a step makes
Registers == last' # <<>> /\ calls' = calls + 1

(* C21: as claimed, once a trie node is the terminus of a registered       *)
(* pattern no later registration changes the pattern it carries.           *)
C21_TerminusPatternKept ==
    [][Registers =>
         \A m \in DOMAIN nodes : \A pos \in Termini(nodes[m]) :
            NodeAt(nodes'[m], pos).urlPattern = NodeAt(nodes[m], pos).urlPattern]_vars

(* C21, amended: a later registration changes the pattern a terminus       *)
(* carries only to its own pattern, and only when it is made on the same   *)
(* method with as many segments as the terminus is deep and each of its    *)
(* segments equals the segment text of the node at that depth or that      *)
(* node is a parameter or wildcard node; every other registration leaves   *)
(* the terminus as it was.                                                 *)
C21_TerminusKeptUnlessSamePath ==
    [][Registers =>
         \A m \in DOMAIN nodes : \A pos \in Termini(nodes[m]) :
            LET old == NodeAt(nodes[m], pos)
                new == NodeAt(nodes'[m], pos)
                parts == createURLParts(last'[1][2])
                way == NodesTo(nodes[m], pos)
            IN \/ new.urlPattern = old.urlPattern
               \/ /\ m = last'[1][1]
                  /\ new.urlPattern = last'[1][2]
                  /\ Len(parts) = Len(pos)
                  /\ \A i \in 1..Len(pos) :
                        way[i].urlPart = parts[i] \/ way[i].isWildcard]_vars

\* '/a/b' was registered after '/a' and '/a' is still a terminus
C21_Witness ==
    /\ calls = 2
    /\ last # <<>>
    /\ last[1] = <<MethodGet, Render(<<SegA, SegB>>, FALSE)>>
    /\ MethodGet \in DOMAIN nodes
    /\ \E pos \in Termini(nodes[MethodGet]) :
          /\ Len(pos) = 1
          /\ NodeAt(nodes[MethodGet], pos).urlPattern = Render(<<SegA>>, FALSE)
    /\ \E pos \in Termini(nodes[MethodGet]) :
          /\ Len(pos) = 2
          /\ NodeAt(nodes[MethodGet], pos).urlPattern = Render(<<SegA, SegB>>, FALSE)

----------------------------------------------------------------------------
\* the children of a node that a request segment selects, by index
CandidateIndexes(n, urlPart) ==
    {i \in 1..Len(n.childrens) :
        n.childrens[i].urlPart = urlPart \/ n.childrens[i].isWildcard}

\* the position reached from a node by taking, at each level, the first
\* child the request segment selects, until the segments are used up, a
\* node whose text begins with '*' is reached, or no child is selected
RECURSIVE FirstCandidateWay(_, _, _)
FirstCandidateWay(n, searchParts, level) ==
    IF Len(searchParts) = level \/ HasPrefix(n.urlPart, <<"*">>)
    THEN <<>>
    ELSE LET is == CandidateIndexes(n, searchParts[level + 1])
         IN IF is = {} THEN <<>>
            ELSE LET i == CHOOSE j \in is : \A k \in is : j <= k
                 IN <<i>> \o FirstCandidateWay(n.childrens[i], searchParts, level + 1)

\* the lookup may end at this node: the segments are used up or the text
\* of the node begins with '*'
EndsLookup(n, depth, searchParts) ==
    Len(searchParts) = depth \/ HasPrefix(n.urlPart, <<"*">>)

\* a terminus that the request reaches by some way through the trie
ReachableTermini(root, searchParts) ==
    {pos \in Termini(root) :
        /\ Len(pos) <= Len(searchParts)
        /\ EndsLookup(NodeAt(root, pos), Len(pos), searchParts)
        /\ \A i \in 1..Len(pos) :
              LET on == NodeAt(root, SubSeq(pos, 1, i - 1))
              IN /\ ~EndsLookup(on, i - 1, searchParts)
                 /\ pos[i] \in CandidateIndexes(on, searchParts[i])}

(* C22: a lookup returns the terminus at the end of the way that takes     *)
(* the first candidate child at every level, and reports no match when     *)
(* that way does not end at a terminus, whatever the later siblings on     *)
(* the way would have matched.                                             *)
C22_FirstCandidateOnly ==
    (Looked /\ found[1].method \in DOMAIN nodes) =>
        LET root == nodes[found[1].method]
            pos == FirstCandidateWay(root, SearchParts, 0)
            end == NodeAt(root, pos)
        IN found[1].node =
              IF EndsLookup(end, Len(pos), SearchParts) /\ end.urlPattern # <<>>
              THEN <<end>> ELSE <<>>

\* no match although a terminus behind a later sibling matches the request
C22_Witness ==
    /\ Looked
    /\ ~Resolved
    /\ found[1].method \in DOMAIN nodes
    /\ ReachableTermini(nodes[found[1].method], SearchParts) # {}

----------------------------------------------------------------------------
\* two patterns of equal length with the same literal segments up to the
\* last one, where the first carries a literal and the second a parameter
LiteralThenParam(lit, par) ==
    LET lp == createURLParts(lit)
        pp == createURLParts(par)
    IN /\ lp # <<>>
       /\ Len(lp) = Len(pp)
       /\ \A i \in 1..(Len(lp) - 1) : lp[i] = pp[i] /\ ~IsParam(lp[i]) /\ ~IsWild(lp[i])
       /\ ~IsParam(lp[Len(lp)]) /\ ~IsWild(lp[Len(lp)])
       /\ IsParam(pp[Len(pp)])

\* the pattern registered first when two registrations were made on the
\* method of the last one
FirstRegistered == RegisteredOn(last[1][1]) \ {last[1][2]}

\* a literal pattern was registered and then, on the same method, the
\* pattern with a parameter in place of its last segment
LiteralRegisteredFirst ==
    /\ calls = 2
    /\ last # <<>>
    /\ \E lit \in FirstRegistered : LiteralThenParam(lit, last[1][2])

(* C23: when a literal child was registered before a parameter child at    *)
(* the same level, a request that agrees with the literal pattern resolves *)
(* to the literal pattern, and a request with any other value in the last  *)
(* segment resolves to the parameter pattern with the parameter bound to   *)
(* that value.                                                             *)
C23_LiteralBeforeParam ==
    (Looked /\ LiteralRegisteredFirst /\ found[1].method = last[1][1]) =>
        \A lit \in FirstRegistered :
            LET par == last[1][2]
                lp == createURLParts(lit)
                pp == createURLParts(par)
                sp == SearchParts
                n == Len(lp)
            IN (/\ LiteralThenParam(lit, par)
                /\ Len(sp) = n
                /\ \A i \in 1..(n - 1) : sp[i] = lp[i]) =>
                   /\ Resolved
                   /\ IF sp[n] = lp[n]
                      THEN /\ FoundNode.urlPattern = lit
                           /\ found[1].params = EmptyMap
                      ELSE /\ FoundNode.urlPattern = par
                           /\ found[1].params = MapPut(EmptyMap, NameOf(pp[n]), sp[n])

\* '/a/b' then '/a/:x' were registered and '/a/b' resolved to '/a/b'
C23_Witness ==
    /\ Looked
    /\ LiteralRegisteredFirst
    /\ found[1].method = last[1][1]
    /\ Render(<<SegA, SegB>>, FALSE) \in FirstRegistered
    /\ last[1][2] = Render(<<SegA, ParamX>>, FALSE)
    /\ SearchParts = <<SegA, SegB>>
    /\ Resolved
    /\ FoundNode.urlPattern = Render(<<SegA, SegB>>, FALSE)

----------------------------------------------------------------------------
\* the handler at position k (from 0) of the request's list
HandlerAt(k) == Ctx.handlers[k + 1]

\* the place in the trace of an event of position k
EventOf(k, ev) ==
    CHOOSE e \in 1..Len(Ctx.trace) : Ctx.trace[e].pos = k /\ Ctx.trace[e].ev = ev

\* the handler at position k was invoked and calls Next more than once
CallsNextTwice(k) == Invoked(k) /\ HandlerAt(k).nexts >= 2

(* C24: as claimed, when an invoked handler calls Next more than once and  *)
(* handlers follow it, some handler at a later position is invoked at      *)
(* least twice.                                                            *)
C24_LaterHandlerRunsTwice ==
    Served =>
        \A k \in 0..(Len(Ctx.handlers) - 2) :
            CallsNextTwice(k) =>
                \E j \in (k + 1)..(Len(Ctx.handlers) - 1) : Invocations(j) >= 2

(* C24, amended: when an invoked handler calls Next more than once, no     *)
(* handler at a later position is invoked more than once; a call after     *)
(* the first invokes the next handler not yet invoked: when the handler    *)
(* that follows returns without calling Next, the one after that is        *)
(* invoked next, before the calling handler's after work.                  *)
C24_LaterHandlersRunOnce ==
    Served =>
        \A k \in 0..(Len(Ctx.handlers) - 1) :
            CallsNextTwice(k) =>
                /\ \A j \in (k + 1)..(Len(Ctx.handlers) - 1) : Invocations(j) <= 1
                /\ (k + 2 <= Len(Ctx.handlers) - 1 /\ HandlerAt(k + 1).nexts = 0) =>
                      /\ Invoked(k + 2)
                      /\ EventOf(k + 2, "before") = EventOf(k + 1, "after") + 1
                      /\ EventOf(k + 2, "before") < EventOf(k, "after")

\* a middleware called Next twice: the first call ran the middleware after
\* it, which did not forward, and the second call ran the route handler
C24_Witness ==
    /\ Served
    /\ Len(Ctx.handlers) = 3
    /\ CallsNextTwice(0)
    /\ HandlerAt(1).nexts = 0
    /\ HandlerAt(2).role = "route"
    /\ Invocations(1) = 1
    /\ Invocations(2) = 1

----------------------------------------------------------------------------
\* the names carried by the ':name' and '*name' segments of a segment list
NamesOf(parts) ==
    {NameOf(parts[i]) : i \in {j \in 1..Len(parts) :
                                  IsParam(parts[j]) \/ (IsWild(parts[j]) /\ Len(parts[j]) > 1)}}

(* C25: the keys of the parameter mapping of a matched request are the     *)
(* names carried by the ':name' and '*name' segments of the pattern of     *)
(* the returned node, one key per distinct name and no other key; literal  *)
(* segments and a bare '*' bind nothing, and a pattern without such        *)
(* segments gives the empty mapping.                                       *)
C25_ParamKeys ==
    Resolved =>
        /\ DOMAIN found[1].params = NamesOf(FoundParts)
        /\ NamesOf(FoundParts) = {} => found[1].params = EmptyMap

\* '/:x/:x' matched: one key for the two segments
C25_Witness ==
    /\ Resolved
    /\ FoundParts = <<ParamX, ParamX>>
    /\ DOMAIN found[1].params = {NameOf(ParamX)}
    /\ \E p \in RegisteredOn(found[1].method) : createURLParts(p) = <<SegA, Star>>

----------------------------------------------------------------------------
\* the step serves a request
Serves == ctx' # <<>>

(* C26: serving a request leaves the registered structures as they were:   *)
(* every trie node, the handler list of every route-table entry and the    *)
(* middleware list of every group. The request's own handler list is a     *)
(* list of its own: it begins with the middlewares collected for the path  *)
(* and is extended by the route handlers or the fallback, and the          *)
(* registered lists it was built from are not extended with it.            *)
C26_ServingKeepsRegistrations ==
    [][Serves =>
          LET c == ctx'[1]
              mws == collectMiddlewares(groups, c.Path, <<>>)
          IN /\ nodes' = nodes
             /\ handlers' = handlers
             /\ groups' = groups
             /\ Len(c.handlers) > Len(mws)
             /\ SubSeq(c.handlers, 1, Len(mws)) = mws]_vars

\* a matched request served through two middlewares and one route handler
C26_Witness ==
    /\ Served
    /\ ~Unmatched
    /\ Len(groups[1].middlewares) = 2
    /\ Len(Ctx.handlers) = 3
    /\ \A key \in DOMAIN handlers : Len(handlers[key]) = 1

----------------------------------------------------------------------------
\* the children of a node: literal children of pairwise distinct texts, at
\* most one parameter or wildcard child, and that one at the end
ChildrenInShape(n) ==
    LET cs == n.childrens
    IN /\ \A i, j \in 1..Len(cs) :
             (i # j /\ ~cs[i].isWildcard /\ ~cs[j].isWildcard) =>
                 cs[i].urlPart # cs[j].urlPart
       /\ \A i \in 1..Len(cs) : cs[i].isWildcard => i = Len(cs)
       /\ \A i \in 1..Len(cs) :
             cs[i].isWildcard <=> (IsParam(cs[i].urlPart) \/ IsWild(cs[i].urlPart))

\* a node that has a parameter or wildcard child
HasWildcardChild(n) == \E i \in 1..Len(n.childrens) : n.childrens[i].isWildcard

(* C27: in every trie, at every node, the literal children have pairwise   *)
(* distinct segment texts, at most one child is a parameter or wildcard    *)
(* child and it is the last of the child list; and a node that has a       *)
(* parameter or wildcard child gets no further child.                      *)
C27_TrieShape ==
    /\ [](\A m \in DOMAIN nodes : \A pos \in PositionsOf(nodes[m]) :
            ChildrenInShape(NodeAt(nodes[m], pos)))
    /\ [][\A m \in DOMAIN nodes : \A pos \in PositionsOf(nodes[m]) :
            HasWildcardChild(NodeAt(nodes[m], pos)) =>
                Len(NodeAt(nodes'[m], pos).childrens)
                    = Len(NodeAt(nodes[m], pos).childrens)]_vars

\* '/a' was registered after '/:x' and the root still has the one child
C27_Witness ==
    /\ calls = 2
    /\ last # <<>>
    /\ last[1] = <<MethodGet, Render(<<SegA>>, FALSE)>>
    /\ Registered(MethodGet, Render(<<ParamX>>, FALSE))
    /\ MethodGet \in DOMAIN nodes
    /\ Len(nodes[MethodGet].childrens) = 1
    /\ HasWildcardChild(nodes[MethodGet])

----------------------------------------------------------------------------
\* the indexes (from 1) of the request's segments that the extraction reads
\* for a pattern's segment list
IndexesRead(parts) ==
    {i \in 1..Len(parts) : IsParam(parts[i]) \/ (IsWild(parts[i]) /\ Len(parts[i]) > 1)}

(* C28: whenever a lookup returns a node, the pattern of the node has as   *)
(* many segments as the node is deep in the trie, no more segments than    *)
(* the request has, and so every index at which the extraction reads the   *)
(* request's segments lies within the request's segment list.              *)
C28_ExtractionInRange ==
    Resolved =>
        LET depth == Len(FirstCandidateWay(nodes[found[1].method], SearchParts, 0))
        IN /\ Len(FoundParts) = depth
           /\ depth <= Len(SearchParts)
           /\ IndexesRead(FoundParts) \subseteq 1..Len(SearchParts)

\* '/a/*p' matched by a request of two segments: the last index is read
C28_Witness ==
    /\ Resolved
    /\ FoundParts = <<SegA, WildP>>
    /\ Len(SearchParts) = 2
    /\ IndexesRead(FoundParts) = {2}

----------------------------------------------------------------------------
\* the places in the trace where a handler starts, in trace order
Starts ==
    LET IsStart(e) == e.ev = "before" IN SelectSeq(Ctx.trace, IsStart)

\* the calls of Next made by the invoked handlers at positions k and later
RECURSIVE NextCallsFrom(_)
NextCallsFrom(k) ==
    IF k >= Len(Ctx.handlers) THEN 0
    ELSE (IF Invoked(k) THEN HandlerAt(k).nexts ELSE 0) + NextCallsFrom(k + 1)

\* the calls of Next made by handle itself
NextCallsOfHandle == IF Unmatched THEN 2 ELSE 1

(* C29: the cursor of a new context is -1 and every call of Next adds one  *)
(* to it, so after the request it is -1 plus the number of calls made; a   *)
(* handler is invoked only as the cursor becomes its position: the n-th    *)
(* handler started is the one at position n-1, so every position is        *)
(* invoked at most once, and the calls made with the cursor at or past     *)
(* the end of the list invoke nothing.                                     *)
C29_CursorDiscipline ==
    Served =>
        /\ newContext(Ctx.Method, Ctx.Path).cursor = -1
        /\ Ctx.cursor = -1 + NextCallsOfHandle + NextCallsFrom(0)
        /\ Len(Starts) <= Len(Ctx.handlers)
        /\ \A n \in 1..Len(Starts) :
              /\ Starts[n].pos = n - 1
              /\ Starts[n].h = HandlerAt(n - 1)
        /\ \A k \in 0..(Len(Ctx.handlers) - 1) : Invocations(k) <= 1
        /\ Ctx.cursor >= Len(Starts) - 1

\* every handler of the list was invoked once and two further calls of
\* Next were made past the end of the list
C29_Witness ==
    /\ Served
    /\ Len(Ctx.handlers) >= 2
    /\ Len(Starts) = Len(Ctx.handlers)
    /\ Ctx.cursor = Len(Ctx.handlers) + 1

----------------------------------------------------------------------------
(* C30: a Default call is rejected, ending the process, only when a        *)
(* fallback registered by the user through Default is in place: a first    *)
(* Default call succeeds although unmatched requests have been served by   *)
(* the built-in responder before it.                                       *)
C30_DefaultRejectedOnlyAfterDefault ==
    ~running => UserDefault

====
